---- MODULE Spec2Model ----
(* WebGuardian threat analysis: the background service worker             *)
(* (WebGuardianBackground) as a state machine. Text is modelled as a      *)
(* sequence of one-character strings so that includes / endsWith / split  *)
(* / replace and the regular expressions are computed as the code does.   *)
EXTENDS Integers, Sequences, FiniteSets, TLC

(***************************************************************************)
(* Text primitives (JavaScript String methods used by the detectors)       *)
(***************************************************************************)

\* s.startsWith(t, i - 1): t occurs in s at 1-based position i
MatchAt(s, t, i) ==
    /\ i >= 1
    /\ i + Len(t) - 1 <= Len(s)
    /\ \A k \in 1..Len(t) : s[i + k - 1] = t[k]

\* s.includes(t)
Includes(s, t) == \E i \in 1..(Len(s) - Len(t) + 1) : MatchAt(s, t, i)

\* s.startsWith(t)
StartsWith(s, t) == MatchAt(s, t, 1)

\* s.endsWith(t)
EndsWith(s, t) == Len(t) <= Len(s) /\ MatchAt(s, t, Len(s) - Len(t) + 1)

\* s.indexOf(t), 1-based, 0 when absent
IndexOf(s, t) ==
    IF Includes(s, t)
    THEN CHOOSE i \in 1..(Len(s) - Len(t) + 1) :
            /\ MatchAt(s, t, i)
            /\ \A j \in 1..(i - 1) : ~MatchAt(s, t, j)
    ELSE 0

\* s.replace(new RegExp(c, 'g'), sub) for a one-character pattern c
ReplaceAll(s, c, sub) == [k \in 1..Len(s) |-> IF s[k] = c THEN sub ELSE s[k]]

\* s.split('.').length
SplitLength(s, c) == Cardinality({k \in 1..Len(s) : s[k] = c}) + 1

Digits == {"0","1","2","3","4","5","6","7","8","9"}

UpperCase == <<"A","B","C","D","E","F","G","H","I","J","K","L","M","N","O","P","Q","R","S","T","U","V","W","X","Y","Z">>
LowerCase == <<"a","b","c","d","e","f","g","h","i","j","k","l","m","n","o","p","q","r","s","t","u","v","w","x","y","z">>

\* String.prototype.toLowerCase
ToLowerChar(c) ==
    IF \E k \in 1..Len(UpperCase) : UpperCase[k] = c
    THEN LowerCase[CHOOSE k \in 1..Len(UpperCase) : UpperCase[k] = c]
    ELSE c

ToLowerCase(s) == [k \in 1..Len(s) |-> ToLowerChar(s[k])]

\* the regular expression /a.*b/ tested on s: a, then anything, then b
MatchesThen(s, a, b) ==
    \E i \in 1..Len(s) :
        /\ MatchAt(s, a, i)
        /\ \E j \in (i + Len(a))..Len(s) : MatchAt(s, b, j)

RECURSIVE Repeat(_, _)
Repeat(c, n) == IF n = 0 THEN <<>> ELSE <<c>> \o Repeat(c, n - 1)


(***************************************************************************)
(* new URL(url): scheme, hostname (lower-cased), pathname, search, href.   *)
(* Ports, user info and fragments do not occur in the inputs below and are *)
(* not parsed.                                                             *)
(***************************************************************************)

Letters == {LowerCase[k] : k \in 1..Len(LowerCase)} \cup {UpperCase[k] : k \in 1..Len(UpperCase)}

\* position of the first character of s at or after from that is in cs; Len(s)+1 if none
FirstOf(s, cs, from) ==
    IF \E k \in from..Len(s) : s[k] \in cs
    THEN CHOOSE k \in from..Len(s) : s[k] \in cs /\ \A j \in from..(k - 1) : s[j] \notin cs
    ELSE Len(s) + 1

SpecialSchemes == {<<"h","t","t","p">>, <<"h","t","t","p","s">>}

InvalidURL == [valid |-> FALSE]

ParseURL(url) ==
    LET colon == IndexOf(url, <<":">>) IN
    IF colon <= 1 \/ url[1] \notin Letters
          \/ \E k \in 1..(colon - 1) : url[k] \notin (Letters \cup Digits \cup {"+", "-", "."})
    THEN InvalidURL
    ELSE
      LET scheme    == ToLowerCase(SubSeq(url, 1, colon - 1))
          hasSlash  == MatchAt(url, <<"/","/">>, colon + 1)
          hostStart == colon + 3
          hostEnd   == FirstOf(url, {"/", "?", "#"}, hostStart)
          hostname  == IF hasSlash THEN ToLowerCase(SubSeq(url, hostStart, hostEnd - 1)) ELSE <<>>
          pathStart == IF hasSlash THEN hostEnd ELSE colon + 1
          pathEnd   == FirstOf(url, {"?", "#"}, pathStart)
          rawPath   == SubSeq(url, pathStart, pathEnd - 1)
          pathname  == IF rawPath = <<>> /\ scheme \in SpecialSchemes THEN <<"/">> ELSE rawPath
          searchEnd == FirstOf(url, {"#"}, pathEnd)
          search    == SubSeq(url, pathEnd, searchEnd - 1)
      IN IF scheme \in SpecialSchemes /\ (~hasSlash \/ hostname = <<>> \/ \E k \in 1..Len(hostname) : hostname[k] = " ")
         THEN InvalidURL
         ELSE [valid    |-> TRUE,
               hostname |-> hostname,
               pathname |-> pathname,
               href     |-> scheme \o <<":">> \o (IF hasSlash THEN <<"/","/">> ELSE <<>>)
                               \o hostname \o pathname \o search]

(***************************************************************************)
(* Pattern sets of the background service                                  *)
(***************************************************************************)

maliciousDomains ==
    { <<"m","a","l","i","c","i","o","u","s","-","e","x","a","m","p","l","e",".","c","o","m">>, <<"p","h","i","s","h","i","n","g","-","s","i","t","e",".","n","e","t">>, <<"f","a","k","e","-","b","a","n","k",".","o","r","g">>, <<"s","c","a","m","-","s","i","t","e",".","b","i","z">> }

trackerDomains ==
    { <<"g","o","o","g","l","e","-","a","n","a","l","y","t","i","c","s",".","c","o","m">>, <<"d","o","u","b","l","e","c","l","i","c","k",".","n","e","t">>, <<"f","a","c","e","b","o","o","k",".","c","o","m">>,
      <<"g","o","o","g","l","e","t","a","g","m","a","n","a","g","e","r",".","c","o","m">>, <<"g","o","o","g","l","e","s","y","n","d","i","c","a","t","i","o","n",".","c","o","m">>, <<"a","m","a","z","o","n","-","a","d","s","y","s","t","e","m",".","c","o","m">> }

commonDomains ==
    << <<"p","a","y","p","a","l">>, <<"m","i","c","r","o","s","o","f","t">>, <<"g","o","o","g","l","e">>, <<"f","a","c","e","b","o","o","k">>, <<"a","m","a","z","o","n">>, <<"a","p","p","l","e">> >>

suspiciousTLDs == { <<".","t","k">>, <<".","m","l">>, <<".","g","a">>, <<".","c","f">>, <<".","c","c">> }

shorteners == { <<"b","i","t",".","l","y">>, <<"t","i","n","y","u","r","l",".","c","o","m">>, <<"t",".","c","o">>, <<"s","h","o","r","t",".","l","i","n","k">> }

\* Object.entries(substitutions), in insertion order
substitutions ==
    << <<"o", "0">>, <<"i", "1">>, <<"l", "1">>, <<"e", "3">>, <<"a", "@">>, <<"s", "$">> >>

(***************************************************************************)
(* Phishing detector                                                       *)
(***************************************************************************)

\* modifiedTarget after the first n substitutions have been applied, cumulatively
RECURSIVE modifiedTarget(_, _)
modifiedTarget(target, n) ==
    IF n = 0 THEN target
    ELSE ReplaceAll(modifiedTarget(target, n - 1), substitutions[n][1], substitutions[n][2])

hasCharacterSubstitution(domain, target) ==
    \E n \in 1..Len(substitutions) : Includes(domain, modifiedTarget(target, n))

\* variant: the guard against the brand's own "{token}.com" left out
brandFires_NoSuffixGuard(domain, commonDomain) ==
    /\ Includes(domain, commonDomain)
    /\ hasCharacterSubstitution(domain, commonDomain)

\* the condition under which the loop over commonDomains sets isPhishing
brandFires(domain, commonDomain) ==
    /\ Includes(domain, commonDomain)
    /\ ~Includes(domain, commonDomain \o <<".","c","o","m">>)
    /\ hasCharacterSubstitution(domain, commonDomain)

brandCheck(domain) ==
    IF \E k \in 1..Len(commonDomains) : brandFires(domain, commonDomains[k])
    THEN LET k == CHOOSE k \in 1..Len(commonDomains) :
                     /\ brandFires(domain, commonDomains[k])
                     /\ \A j \in 1..(k - 1) : ~brandFires(domain, commonDomains[j])
         IN [isPhishing |-> TRUE,
             reason |-> <<"Possible phishing attempt targeting", commonDomains[k]>>]
    ELSE [isPhishing |-> FALSE, reason |-> <<"", <<>> >>]

\* variant: startsWith in place of endsWith
tldFires_StartsWith(domain) == \E tld \in suspiciousTLDs : StartsWith(domain, tld)

tldFires(domain) == \E tld \in suspiciousTLDs : EndsWith(domain, tld)

shortenerFires(domain) == \E shortener \in shorteners : Includes(domain, shortener)

detectPhishing(domain) ==
    LET r1 == brandCheck(domain)
        r2 == IF tldFires(domain)
              THEN [isPhishing |-> TRUE,
                    reason |-> <<"Uses suspicious top-level domain often associated with phishing", <<>> >>]
              ELSE r1
    IN  IF shortenerFires(domain)
        THEN [isPhishing |-> TRUE,
              reason |-> <<"URL shortener detected - may hide real destination", <<>> >>]
        ELSE r2

(***************************************************************************)
(* URL structural analyzer                                                 *)
(***************************************************************************)

\* /^\d+\.\d+\.\d+\.\d+$/.test(hostname)
IsIPLiteral(hostname) ==
    /\ Len(hostname) > 0
    /\ SplitLength(hostname, ".") = 4
    /\ \A k \in 1..Len(hostname) : hostname[k] \in Digits \cup {"."}
    /\ hostname[1] # "." /\ hostname[Len(hostname)] # "."
    /\ ~Includes(hostname, <<".",".">>)

\* suspiciousPathPatterns.some(pattern => pattern.test(pathname)), all with flag i
suspiciousPath(pathname) ==
    LET p == ToLowerCase(pathname) IN
    \/ MatchesThen(p, <<"l","o","g","i","n">>, <<"s","e","c","u","r","e">>)
    \/ MatchesThen(p, <<"v","e","r","i","f","y">>, <<"a","c","c","o","u","n","t">>)
    \/ MatchesThen(p, <<"u","p","d","a","t","e">>, <<"p","a","y","m","e","n","t">>)
    \/ Includes(p, <<"s","u","s","p","e","n","d","e","d">>)

\* variant: the subdomain rule assigns its 25 as the length rule assigns its 20
structureRules_Assigning(urlObj, score0, reason0) ==
    LET long   == Len(urlObj.href) > 100
        deep   == SplitLength(urlObj.hostname, ".") > 4
        path   == suspiciousPath(urlObj.pathname)
        score1 == IF long THEN 20 ELSE score0
        score2 == IF deep THEN 25 ELSE score1
        score3 == IF path THEN score2 + 30 ELSE score2
    IN [suspicious |-> score0 > 0 \/ long \/ deep \/ path,
        reason |-> IF path THEN <<"Suspicious path pattern detected", <<>> >>
                   ELSE IF deep THEN <<"Too many subdomains", <<>> >>
                   ELSE IF long THEN <<"Unusually long URL", <<>> >>
                   ELSE reason0,
        score |-> score3]

\* the checks after the IP-literal test, starting from the score and reason given
structureRules(urlObj, score0, reason0) ==
    LET long   == Len(urlObj.href) > 100
        deep   == SplitLength(urlObj.hostname, ".") > 4
        path   == suspiciousPath(urlObj.pathname)
        score1 == IF long THEN 20 ELSE score0
        score2 == IF deep THEN score1 + 25 ELSE score1
        score3 == IF path THEN score2 + 30 ELSE score2
    IN [suspicious |-> score0 > 0 \/ long \/ deep \/ path,
        reason |-> IF path THEN <<"Suspicious path pattern detected", <<>> >>
                   ELSE IF deep THEN <<"Too many subdomains", <<>> >>
                   ELSE IF long THEN <<"Unusually long URL", <<>> >>
                   ELSE reason0,
        score |-> score3]

\* variant: the IP-literal branch does not return, the other checks still run
analyzeURLStructure_NoEarlyReturn(urlObj) ==
    IF IsIPLiteral(urlObj.hostname)
    THEN structureRules(urlObj, 40, <<"Uses IP address instead of domain name", <<>> >>)
    ELSE structureRules(urlObj, 0, <<"", <<>> >>)

analyzeURLStructure(urlObj) ==
    IF IsIPLiteral(urlObj.hostname)
    THEN [suspicious |-> TRUE, reason |-> <<"Uses IP address instead of domain name", <<>> >>, score |-> 40]
    ELSE structureRules(urlObj, 0, <<"", <<>> >>)

(***************************************************************************)
(* Tracker classifier                                                      *)
(***************************************************************************)

\* trackerPatterns.some(pattern => pattern.test(domain))
isKnownTracker(domain) ==
    \/ Includes(domain, <<"g","o","o","g","l","e","-","a","n","a","l","y","t","i","c","s">>)
    \/ Includes(domain, <<"g","o","o","g","l","e","t","a","g","m","a","n","a","g","e","r">>)
    \/ Includes(domain, <<"d","o","u","b","l","e","c","l","i","c","k">>)
    \/ MatchesThen(domain, <<"f","a","c","e","b","o","o","k",".","c","o","m">>, <<"/","t","r">>)
    \/ Includes(domain, <<"a","m","a","z","o","n","-","a","d","s","y","s","t","e","m">>)
    \/ Includes(domain, <<"g","o","o","g","l","e","s","y","n","d","i","c","a","t","i","o","n">>)
    \/ Includes(domain, <<"s","c","o","r","e","c","a","r","d","r","e","s","e","a","r","c","h">>)
    \/ Includes(domain, <<"q","u","a","n","t","s","e","r","v","e">>)

(***************************************************************************)
(* Risk aggregation of one evaluation (the synchronous part of analyzeURL) *)
(***************************************************************************)

SECURE_THRESHOLD == 30

Threat(type, severity, description) ==
    [type |-> type, severity |-> severity, description |-> description]

maliciousThreats(domain) ==
    IF domain \in maliciousDomains
    THEN << Threat("malicious_domain", "high", <<"Known malicious domain", domain>>) >>
    ELSE << >>

phishingThreats(domain) ==
    IF detectPhishing(domain).isPhishing
    THEN << Threat("phishing", "high", detectPhishing(domain).reason) >>
    ELSE << >>

structureThreats(urlObj) ==
    IF analyzeURLStructure(urlObj).suspicious
    THEN << Threat("suspicious_url", "medium", analyzeURLStructure(urlObj).reason) >>
    ELSE << >>

\* analysis.riskScore after the three checks
riskScoreOf(domain, urlObj) ==
    (IF domain \in maliciousDomains THEN 80 ELSE 0)
      + (IF detectPhishing(domain).isPhishing THEN 70 ELSE 0)
      + (IF analyzeURLStructure(urlObj).suspicious THEN analyzeURLStructure(urlObj).score ELSE 0)

\* variant: the threshold compared with <= instead of <
isSecureOf_Inclusive(riskScore) == riskScore <= SECURE_THRESHOLD

isSecureOf(riskScore) == riskScore < SECURE_THRESHOLD

\* the analysis object built for a URL that parses and is not skipped
buildAnalysis(url, urlObj) ==
    LET domain == ToLowerCase(urlObj.hostname) IN
    [url             |-> url,
     domain          |-> domain,
     threats         |-> maliciousThreats(domain) \o phishingThreats(domain) \o structureThreats(urlObj),
     riskScore       |-> riskScoreOf(domain, urlObj),
     trackersBlocked |-> 0,
     isSecure        |-> isSecureOf(riskScoreOf(domain, urlObj))]

\* outcome of the synchronous part: "threw" (new URL failed), "skipped"
\* (chrome:// and chrome-extension:// URLs) or "analysed"
scan(url) ==
    LET urlObj == ParseURL(url) IN
    IF ~urlObj.valid THEN [outcome |-> "threw"]
    ELSE IF StartsWith(url, <<"c","h","r","o","m","e",":","/","/">>) \/ StartsWith(url, <<"c","h","r","o","m","e","-","e","x","t","e","n","s","i","o","n",":","/","/">>)
         THEN [outcome |-> "skipped"]
         ELSE [outcome |-> "analysed", analysis |-> buildAnalysis(url, urlObj)]

(***************************************************************************)
(* Inputs                                                                  *)
(***************************************************************************)

urlClean          == <<"h","t","t","p","s",":","/","/","e","x","a","m","p","l","e",".","c","o","m","/">>
urlMalicious      == <<"h","t","t","p",":","/","/","f","a","k","e","-","b","a","n","k",".","o","r","g","/">>
urlMaliciousPath  == <<"h","t","t","p",":","/","/","f","a","k","e","-","b","a","n","k",".","o","r","g","/","a","c","c","o","u","n","t","/","s","u","s","p","e","n","d","e","d">>
urlPaypa1         == <<"h","t","t","p","s",":","/","/","p","a","y","p","a","1","-","l","o","g","i","n",".","c","o","m","/">>
urlPaypal         == <<"h","t","t","p","s",":","/","/","p","a","y","p","a","l",".","c","o","m","/">>
urlPaypalUpper    == <<"h","t","t","p","s",":","/","/","P","a","y","P","a","l",".","c","o","m">>
urlAccountsPaypal == <<"h","t","t","p","s",":","/","/","a","c","c","o","u","n","t","s",".","p","a","y","p","a","l",".","c","o","m","/">>
urlIP             == <<"h","t","t","p",":","/","/","1","9","2",".","1","6","8",".","1",".","1","0","/","a","n","y","t","h","i","n","g">>
urlIPLong         == <<"h","t","t","p",":","/","/","1","9","2",".","1","6","8",".","1",".","1","0","/","l","o","g","i","n","/","s","e","c","u","r","e","/">> \o Repeat("a", 90)
urlIPOther        == <<"h","t","t","p",":","/","/","1","0",".","0",".","0",".","1","/">>
urlTk             == <<"h","t","t","p","s",":","/","/","s","e","c","u","r","e","-","l","o","g","i","n","-","v","e","r","i","f","y",".","t","k","/","c","o","n","f","i","r","m","?","x","=","1">>
urlExampleTk      == <<"h","t","t","p","s",":","/","/","e","x","a","m","p","l","e",".","t","k","/">>
urlShortener      == <<"h","t","t","p","s",":","/","/","b","i","t",".","l","y","/","a","b","c">>
urlDeep           == <<"h","t","t","p","s",":","/","/","a",".","b",".","c",".","d",".","e","x","a","m","p","l","e",".","c","o","m","/">>
urlLong           == <<"h","t","t","p","s",":","/","/","e","x","a","m","p","l","e",".","c","o","m","/","?","q","=">> \o Repeat("a", 90)
urlPath           == <<"h","t","t","p","s",":","/","/","e","x","a","m","p","l","e",".","c","o","m","/","l","o","g","i","n","/","s","e","c","u","r","e">>
urlAllStructure   == <<"h","t","t","p","s",":","/","/","a",".","b",".","c",".","d",".","e","x","a","m","p","l","e",".","t","k","/","v","e","r","i","f","y","/","a","c","c","o","u","n","t","?","q","=">> \o Repeat("a", 90)
urlChrome         == <<"c","h","r","o","m","e",":","/","/","e","x","t","e","n","s","i","o","n","s","/">>
urlMalformed      == <<"n","o","t"," ","a"," ","u","r","l">>

urlLongDeep       == <<"h","t","t","p","s",":","/","/","a",".","b",".","c",".","d",".","e","x","a","m","p","l","e",".","c","o","m","/","?","q","=">> \o Repeat("a", 90)
urlLongPath       == <<"h","t","t","p","s",":","/","/","e","x","a","m","p","l","e",".","c","o","m","/","s","u","s","p","e","n","d","e","d","?","q","=">> \o Repeat("a", 90)
urlDeepPath       == <<"h","t","t","p","s",":","/","/","a",".","b",".","c",".","d",".","e","x","a","m","p","l","e",".","c","o","m","/","u","p","d","a","t","e","/","p","a","y","m","e","n","t">>
urlPaypalSupport  == <<"h","t","t","p","s",":","/","/","p","a","y","p","a","l","-","s","u","p","p","o","r","t",".","n","e","t","/">>
urlPineapple      == <<"h","t","t","p","s",":","/","/","p","i","n","e","a","p","p","l","e",".","o","r","g","/">>
urlMicrosoft      == <<"h","t","t","p","s",":","/","/","m","i","c","r","o","s","o","f","t",".","c","o","m","/">>
urlGoogle         == <<"h","t","t","p","s",":","/","/","g","o","o","g","l","e",".","c","o","m","/">>
urlFacebook       == <<"h","t","t","p","s",":","/","/","f","a","c","e","b","o","o","k",".","c","o","m","/">>
urlAmazon         == <<"h","t","t","p","s",":","/","/","a","m","a","z","o","n",".","c","o","m","/">>
urlApple          == <<"h","t","t","p","s",":","/","/","a","p","p","l","e",".","c","o","m","/">>

AllUrls ==
    { urlClean, urlMalicious, urlMaliciousPath, urlPaypa1, urlPaypal, urlPaypalUpper,
      urlAccountsPaypal, urlIP, urlIPLong, urlIPOther, urlTk, urlExampleTk, urlShortener, urlDeep,
      urlLong, urlPath, urlAllStructure, urlChrome, urlMalformed,
      urlLongDeep, urlLongPath, urlDeepPath, urlPaypalSupport, urlPineapple,
      urlMicrosoft, urlGoogle, urlFacebook, urlAmazon, urlApple }

\* outbound request URLs
reqTagManager == <<"h","t","t","p","s",":","/","/","g","o","o","g","l","e","t","a","g","m","a","n","a","g","e","r",".","c","o","m","/","g","t","m",".","j","s">>
reqAnalytics  == <<"h","t","t","p","s",":","/","/","w","w","w",".","g","o","o","g","l","e","-","a","n","a","l","y","t","i","c","s",".","c","o","m","/","c","o","l","l","e","c","t">>
reqFacebook   == <<"h","t","t","p","s",":","/","/","f","a","c","e","b","o","o","k",".","c","o","m","/","t","r">>
reqPlain      == <<"h","t","t","p","s",":","/","/","e","x","a","m","p","l","e",".","c","o","m","/","a","p","p",".","j","s">>

RequestUrls == { reqTagManager, reqAnalytics, reqFacebook, reqPlain }

\* a request URL that new URL() rejects
reqMalformed == <<"h","t","t","p",":","/","/">>

\* whether new URL(details.url) returns, per request input
requestParses == [u \in RequestUrls \cup {reqMalformed} |-> ParseURL(u).valid]

\* scan and ParseURL of the inputs, evaluated once
scanOf == [u \in AllUrls |-> scan(u)]

requestDomainOf == [u \in RequestUrls |-> ToLowerCase(ParseURL(u).hostname)]

\* browser tabs that send events (one tab: no claim settled here relates two tabs)
Tabs == {1}

NoTab == 0

(***************************************************************************)
(* State of the background service and of its collaborators               *)
(***************************************************************************)

MaxScans == 2          \* cap on stats.sitesScanned
MaxBlocked == 1        \* cap on stats.trackersBlocked
MaxPending == 1        \* cap on the handlers suspended at an await

VARIABLES
    settings,      \* this.settings (the boolean toggles)
    stats,         \* this.stats
    savedStats,    \* chrome.storage.local webguardian_stats
    storage,       \* chrome.storage.local analysis_<tabId>, per tab
    pending,       \* async handlers suspended at an await, oldest first
    badge,         \* badge text per tab, as a number (0 is '')
    warningsSent,  \* tabs that were sent a security_warning their content script has not received yet
    decision,      \* outcome of the latest analyzeRequest
    response,      \* latest value passed to sendResponse
    unanswered,    \* message types a handler returned from without calling sendResponse
    evals,         \* history: up to two evaluations, each with the settings it started under
    contentPc,     \* content script: "loading", "monitoring" or "failed"
    page,          \* content script: the page it was loaded into
    checksRun,     \* content script: the checks of startMonitoring that returned
    reported,      \* content script: indicator types passed to reportSuspiciousContent
    cpu,           \* content script: the closure of monitorCPUUsage and the clock
    modal          \* content script: warningShown and the warning modals in the document

progVars == <<settings, stats, savedStats, storage, pending, badge, warningsSent,
              decision, response, unanswered>>

contentVars == <<contentPc, page, checksRun, reported, cpu, modal>>

vars == <<settings, stats, savedStats, storage, pending, badge, warningsSent,
          decision, response, unanswered, evals, contentPc, page, checksRun, reported, cpu,
          modal>>

defaultSettings ==
    [realTimeProtection  |-> TRUE,
     blockMaliciousSites |-> TRUE,
     blockPhishing       |-> TRUE,
     blockTrackers       |-> TRUE,
     blockCryptominers   |-> TRUE,
     showWarnings        |-> TRUE]

SettingNames == DOMAIN defaultSettings

DetectorNames == {"blockMaliciousSites", "blockPhishing", "blockCryptominers"}

\* settings objects the settings page sends: the defaults with at most one toggle off
SettingsSent ==
    {defaultSettings} \cup {[defaultSettings EXCEPT ![n] = FALSE] : n \in SettingNames}

DetectorSettingsSent ==
    {defaultSettings} \cup {[defaultSettings EXCEPT ![n] = FALSE] : n \in DetectorNames}

initialStats ==
    [sitesScanned |-> 0, threatsBlocked |-> 0, trackersBlocked |-> 0,
     malwareDetected |-> 0, phishingBlocked |-> 0]

Null == [null |-> TRUE]

TrackerCounts == {2}

Init ==
    /\ settings = defaultSettings
    /\ stats = initialStats
    /\ savedStats = Null
    /\ storage = [t \in Tabs |-> Null]
    /\ pending = << >>
    /\ badge = [t \in Tabs |-> 0]
    /\ warningsSent = {}
    /\ decision = Null
    /\ response = Null
    /\ unanswered = {}
    /\ evals = << >>
    /\ contentPc = "loading"
    /\ page = Null
    /\ checksRun = << >>
    /\ reported = << >>
    /\ cpu = [now |-> 0, startTime |-> 0, iterations |-> 0, checkCount |-> 0,
              frameRequested |-> FALSE]
    /\ modal = [warningShown |-> FALSE, modals |-> 0]

\* the sequence s without its k-th element
RemoveAt(s, k) == SubSeq(s, 1, k - 1) \o SubSeq(s, k + 1, Len(s))

(***************************************************************************)
(* Navigation: onBeforeNavigate -> analyzeURL                              *)
(***************************************************************************)

CountOf(threats, type) == Cardinality({k \in 1..Len(threats) : threats[k].type = type})

\* variant: threatsBlocked is assigned the threats of this result, not increased by them
statsAfterScan_Assigning(s, analysis) ==
    [s EXCEPT !.sitesScanned    = @ + 1,
              !.malwareDetected = @ + CountOf(analysis.threats, "malicious_domain"),
              !.phishingBlocked = @ + CountOf(analysis.threats, "phishing"),
              !.threatsBlocked  = CountOf(analysis.threats, "malicious_domain")
                                    + CountOf(analysis.threats, "phishing")]

\* variant: a phishing hit is counted under malwareDetected
statsAfterScan_PhishingAsMalware(s, analysis) ==
    [s EXCEPT !.sitesScanned    = @ + 1,
              !.malwareDetected = @ + CountOf(analysis.threats, "malicious_domain")
                                    + CountOf(analysis.threats, "phishing"),
              !.threatsBlocked  = @ + CountOf(analysis.threats, "malicious_domain")
                                    + CountOf(analysis.threats, "phishing")]

\* the counters after the synchronous part of analyzeURL
statsAfterScan(s, analysis) ==
    [s EXCEPT !.sitesScanned    = @ + 1,
              !.malwareDetected = @ + CountOf(analysis.threats, "malicious_domain"),
              !.phishingBlocked = @ + CountOf(analysis.threats, "phishing"),
              !.threatsBlocked  = @ + CountOf(analysis.threats, "malicious_domain")
                                    + CountOf(analysis.threats, "phishing")]

\* variant: riskScore starts from the tab's stored result instead of 0
analysisFor_Accumulating(url, tabId) ==
    IF storage[tabId] # Null
    THEN [scanOf[url].analysis EXCEPT
            !.riskScore = @ + storage[tabId].riskScore,
            !.isSecure = isSecureOf(scanOf[url].analysis.riskScore + storage[tabId].riskScore)]
    ELSE scanOf[url].analysis

\* variant: the phishing check is gated on blockPhishing, with the test inverted
analysisFor_InvertedGate(url, tabId) ==
    LET a == scanOf[url].analysis
        kept == SelectSeq(a.threats, LAMBDA t : t.type # "phishing")
        risk == a.riskScore - 70 * (Len(a.threats) - Len(kept))
    IN IF settings.blockPhishing
       THEN [a EXCEPT !.threats = kept, !.riskScore = risk, !.isSecure = isSecureOf(risk)]
       ELSE a

\* the analysis object analyzeURL passes to storeAnalysis
analysisFor(url, tabId) == scanOf[url].analysis

\* analyzeURL up to its first await: the storage write of storeAnalysis is issued
\* here, the rest of the handler is suspended
analyzeURL(url, tabId) ==
    IF scanOf[url].outcome # "analysed"
    THEN UNCHANGED progVars
    ELSE /\ stats.sitesScanned < MaxScans
         /\ stats' = statsAfterScan(stats, analysisFor(url, tabId))
         /\ storage' = [storage EXCEPT ![tabId] = analysisFor(url, tabId)]
         /\ pending' = Append(pending, [op |-> "analyzeURL", tabId |-> tabId,
                                        analysis |-> analysisFor(url, tabId)])
         /\ UNCHANGED <<settings, savedStats, badge, warningsSent, decision, response, unanswered>>

onBeforeNavigate(url, tabId) ==
    /\ settings.realTimeProtection
    /\ analyzeURL(url, tabId)

\* updateBadge(tabId, analysis)
badgeText(analysis) == IF analysis # Null THEN Len(analysis.threats) ELSE 0

\* analyzeURL after storeAnalysis: warning, badge, saveStats
analyzeURLResume(k) ==
    /\ k \in 1..Len(pending)
    /\ pending[k].op = "analyzeURL"
    /\ warningsSent' = IF pending[k].analysis.riskScore >= 60 /\ settings.showWarnings
                       THEN warningsSent \cup {pending[k].tabId}
                       ELSE warningsSent
    /\ badge' = [badge EXCEPT ![pending[k].tabId] = badgeText(pending[k].analysis)]
    /\ savedStats' = stats
    /\ pending' = RemoveAt(pending, k)
    /\ UNCHANGED <<settings, stats, storage, decision, response, unanswered>>

\* tabs.onUpdated with status 'complete': updateBadge(tabId) without an analysis
onUpdated(tabId) ==
    /\ badge' = [badge EXCEPT ![tabId] = badgeText(Null)]
    /\ UNCHANGED <<settings, stats, savedStats, storage, pending, warningsSent,
                   decision, response, unanswered>>

(***************************************************************************)
(* Outbound requests: onBeforeRequest -> analyzeRequest                    *)
(***************************************************************************)

\* variant: the blockTrackers toggle is not consulted
blocks_Ungated(s, domain) == domain \in trackerDomains \/ isKnownTracker(domain)

\* the block condition of analyzeRequest
blocks(s, domain) ==
    s.blockTrackers /\ (domain \in trackerDomains \/ isKnownTracker(domain))

blocksOf == [b \in BOOLEAN, u \in RequestUrls |->
                blocks([defaultSettings EXCEPT !.blockTrackers = b], requestDomainOf[u])]

\* new URL(details.url) is outside any try block: on a URL it rejects, the
\* exception leaves the listener (threw), with no decision returned
analyzeRequest(url) ==
    IF ~requestParses[url]
    THEN /\ decision' = [url |-> url, cancel |-> FALSE,
                         blockTrackers |-> settings.blockTrackers, threw |-> TRUE]
         /\ UNCHANGED <<settings, stats, savedStats, storage, pending, badge,
                        warningsSent, response, unanswered>>
    ELSE LET cancel == blocksOf[settings.blockTrackers, url] IN
         /\ cancel => stats.trackersBlocked < MaxBlocked
         /\ stats' = IF cancel THEN [stats EXCEPT !.trackersBlocked = @ + 1] ELSE stats
         /\ savedStats' = IF cancel THEN stats' ELSE savedStats
         /\ decision' = [url |-> url, cancel |-> cancel,
                         blockTrackers |-> settings.blockTrackers, threw |-> FALSE]
         /\ UNCHANGED <<settings, storage, pending, badge, warningsSent, response, unanswered>>

(***************************************************************************)
(* Messages: handleMessage                                                 *)
(***************************************************************************)

\* getStoredAnalysis(tabId)
getStoredAnalysis(tabId) ==
    IF tabId = NoTab THEN Null
    ELSE IF storage[tabId] # Null THEN storage[tabId]
    ELSE [url             |-> <<"Unknown">>,
          domain          |-> <<"Unknown">>,
          threats         |-> << >>,
          riskScore       |-> 0,
          trackersBlocked |-> stats.trackersBlocked,
          isSecure        |-> TRUE]

get_analysis(senderTab) ==
    /\ response' = [type |-> "get_analysis", body |-> getStoredAnalysis(senderTab)]
    /\ UNCHANGED <<settings, stats, savedStats, storage, pending, badge, warningsSent,
                   decision, unanswered>>

\* { ...this.settings, ...message.settings }
mergeSettings(old, sent) ==
    [n \in SettingNames |-> IF n \in DOMAIN sent THEN sent[n] ELSE old[n]]

settings_updated(sent) ==
    /\ settings' = mergeSettings(settings, sent)
    /\ response' = [type |-> "settings_updated", body |-> [success |-> TRUE]]
    /\ UNCHANGED <<stats, savedStats, storage, pending, badge, warningsSent, decision, unanswered>>

get_stats ==
    /\ response' = [type |-> "get_stats", body |-> stats]
    /\ UNCHANGED <<settings, stats, savedStats, storage, pending, badge, warningsSent,
                   decision, unanswered>>

\* indicator lists the content script reports
ReportedIndicators == { << "phishing_language" >>, << "cryptomining_script" >> }

\* report_suspicious: the report is logged and acknowledged
report_suspicious(senderTab, indicators) ==
    /\ response' = [type |-> "report_suspicious", body |-> [success |-> TRUE]]
    /\ UNCHANGED <<settings, stats, savedStats, storage, pending, badge, warningsSent,
                   decision, unanswered>>

\* any other message type
unknown_message ==
    /\ response' = [type |-> "unknown", body |-> [error |-> "Unknown message type"]]
    /\ UNCHANGED <<settings, stats, savedStats, storage, pending, badge, warningsSent,
                   decision, unanswered>>

\* force_scan up to the first await: without a sender tab (the popup) the handler
\* breaks out of the switch with no sendResponse; with one it calls
\* analyzeURL(sender.tab.url, sender.tab.id)
force_scan(senderTab, url) ==
    IF senderTab = NoTab
    THEN /\ unanswered' = unanswered \cup {"force_scan"}
         /\ UNCHANGED <<settings, stats, savedStats, storage, pending, badge, warningsSent,
                        decision, response>>
    ELSE IF scanOf[url].outcome # "analysed"
    THEN /\ pending' = Append(pending, [op |-> "force_scan", tabId |-> senderTab,
                                        stage |-> "read"])
         /\ UNCHANGED <<settings, stats, savedStats, storage, badge, warningsSent,
                        decision, response, unanswered>>
    ELSE /\ stats.sitesScanned < MaxScans
         /\ stats' = statsAfterScan(stats, analysisFor(url, senderTab))
         /\ storage' = [storage EXCEPT ![senderTab] = analysisFor(url, senderTab)]
         /\ pending' = Append(pending, [op |-> "force_scan", tabId |-> senderTab,
                                        stage |-> "scan",
                                        analysis |-> analysisFor(url, senderTab)])
         /\ UNCHANGED <<settings, savedStats, badge, warningsSent, decision, response, unanswered>>

\* force_scan resumed: the rest of analyzeURL, then getStoredAnalysis and the response
force_scanResume(k) ==
    /\ k \in 1..Len(pending)
    /\ pending[k].op = "force_scan"
    /\ IF pending[k].stage = "scan"
       THEN /\ warningsSent' = IF pending[k].analysis.riskScore >= 60 /\ settings.showWarnings
                               THEN warningsSent \cup {pending[k].tabId}
                               ELSE warningsSent
            /\ badge' = [badge EXCEPT ![pending[k].tabId] = badgeText(pending[k].analysis)]
            /\ savedStats' = stats
            /\ pending' = [pending EXCEPT ![k] = [op |-> "force_scan",
                                                  tabId |-> pending[k].tabId,
                                                  stage |-> "read"]]
            /\ UNCHANGED <<settings, stats, storage, decision, response, unanswered>>
       ELSE /\ response' = [type |-> "force_scan",
                            body |-> getStoredAnalysis(pending[k].tabId)]
            /\ pending' = RemoveAt(pending, k)
            /\ UNCHANGED <<settings, stats, savedStats, storage, badge, warningsSent,
                           decision, unanswered>>

\* update_tracker_count up to the storage read: the value read is kept by the handler
update_tracker_count(senderTab, count) ==
    /\ senderTab # NoTab
    /\ pending' = Append(pending, [op |-> "update_tracker_count", tabId |-> senderTab,
                                   read |-> storage[senderTab], count |-> count])
    /\ UNCHANGED <<settings, stats, savedStats, storage, badge, warningsSent,
                   decision, response, unanswered>>

\* update_tracker_count after the read: write the record back, respond
update_tracker_countResume(k) ==
    /\ k \in 1..Len(pending)
    /\ pending[k].op = "update_tracker_count"
    /\ storage' = IF pending[k].read # Null
                  THEN [storage EXCEPT ![pending[k].tabId] =
                            [pending[k].read EXCEPT !.trackersBlocked = pending[k].count]]
                  ELSE storage
    /\ response' = [type |-> "update_tracker_count", body |-> [success |-> TRUE]]
    /\ pending' = RemoveAt(pending, k)
    /\ UNCHANGED <<settings, stats, savedStats, badge, warningsSent, decision, unanswered>>

(***************************************************************************)
(* Settings page: clearData                                                *)
(***************************************************************************)

\* clearData: chrome.storage.local is cleared and the page's own copy of the
\* statistics is zeroed; the background service is not told
clearData ==
    /\ storage' = [t \in Tabs |-> Null]
    /\ savedStats' = Null
    /\ UNCHANGED <<settings, stats, pending, badge, warningsSent, decision, response,
                   unanswered>>

(***************************************************************************)
(* Content script: startMonitoring and the CPU sampling loop               *)
(***************************************************************************)

\* the checks startMonitoring calls, in order, inside its one try block
Checks ==
    << "setupDOMObserver", "analyzeCurrentPage", "monitorForms", "detectClickjacking",
       "checkForCryptomining" >>

\* window.location.hostname of the page the content script runs in
pageHost == <<"e","x","a","m","p","l","e",".","c","o","m">>

\* the action attribute of the page's password form: a relative path, the page's
\* own host, another host, another host with the page's host in the query string,
\* and no action attribute (getAttribute gives null, modelled as the empty text)
formRelative == <<"/","l","o","g","i","n">>
formSameHost == <<"h","t","t","p","s",":","/","/","e","x","a","m","p","l","e",".","c","o","m","/","l","o","g","i","n">>
formOtherHost == <<"h","t","t","p","s",":","/","/","e","v","i","l",".","n","e","t","/","l","o","g","i","n">>
formOtherHostMention == <<"h","t","t","p","s",":","/","/","e","v","i","l",".","n","e","t","/","?","f","r","o","m","=","e","x","a","m","p","l","e",".","c","o","m">>
formNoAction == << >>

FormActions == { formRelative, formSameHost, formOtherHost, formOtherHostMention, formNoAction }

\* pages: what the checks find, which check (if any) throws on the page, and the
\* action of its password form (Null: the page has no password form)
Pages ==
    [keyword : BOOLEAN, framed : BOOLEAN, miner : BOOLEAN,
     throws  : {"none", "analyzeCurrentPage", "detectClickjacking", "checkForCryptomining"},
     formAction : {Null}]

\* pages that differ in their password form only
FormPages ==
    [keyword : BOOLEAN, framed : {FALSE}, miner : {FALSE}, throws : {"none"},
     formAction : FormActions]

\* the fake-login-form test of checkForPhishingIndicators
externalLoginForm(action) ==
    action # Null /\ action # << >> /\ ~Includes(action, pageHost)

\* the indicator types a check reports on a page
reportsOf(check, pg) ==
    IF check = "analyzeCurrentPage"
    THEN (IF pg.keyword THEN << "phishing_language" >> ELSE << >>) \o
         (IF externalLoginForm(pg.formAction) THEN << "external_login_form" >> ELSE << >>)
    ELSE IF check = "detectClickjacking" /\ pg.framed THEN << "cross_origin_framing" >>
    ELSE IF check = "checkForCryptomining" /\ pg.miner THEN << "cryptomining_script" >>
    ELSE << >>

\* the checks that return before the first throw
completedChecks(pg) ==
    IF \E k \in 1..Len(Checks) : Checks[k] = pg.throws
    THEN SubSeq(Checks, 1, (CHOOSE k \in 1..Len(Checks) : Checks[k] = pg.throws) - 1)
    ELSE Checks

RECURSIVE reportsOfAll(_, _)
reportsOfAll(checks, pg) ==
    IF checks = << >> THEN << >>
    ELSE reportsOf(Head(checks), pg) \o reportsOfAll(Tail(checks), pg)

maxChecks == 10

WINDOW_MS == 1000

MIN_ITERATIONS == 50

\* time between two animation frames, in ms: an idle page and a busy one
FrameIntervals == {20, 500}

\* monitorCPUUsage up to its requestAnimationFrame
monitorCPUUsage(c) ==
    [c EXCEPT !.startTime = c.now, !.iterations = 0, !.checkCount = 0,
              !.frameRequested = TRUE]

\* startMonitoring on a page: the checks run in order; a throw ends the try block
startMonitoring(pg) ==
    /\ contentPc = "loading"
    /\ page' = pg
    /\ checksRun' = completedChecks(pg)
    /\ reported' = reportsOfAll(completedChecks(pg), pg)
    /\ contentPc' = IF completedChecks(pg) = Checks THEN "monitoring" ELSE "failed"
    /\ cpu' = IF completedChecks(pg) = Checks THEN monitorCPUUsage(cpu) ELSE cpu
    /\ UNCHANGED modal
    /\ UNCHANGED progVars

\* variant: the loop asks for another frame after it has reported
checkCPU_NoStop(dt) ==
    LET currentTime == cpu.now + dt
        iterations  == cpu.iterations + 1
        elapsed     == currentTime - cpu.startTime > WINDOW_MS
        busy        == elapsed /\ iterations < MIN_ITERATIONS
        checkCount  == IF elapsed THEN cpu.checkCount + 1 ELSE cpu.checkCount
    IN /\ cpu.frameRequested
       /\ reported' = IF busy THEN Append(reported, "high_cpu_usage") ELSE reported
       /\ cpu' = [now            |-> currentTime,
                  startTime      |-> IF elapsed /\ ~busy THEN currentTime ELSE cpu.startTime,
                  iterations     |-> IF elapsed /\ ~busy THEN 0 ELSE iterations,
                  checkCount     |-> checkCount,
                  frameRequested |-> ~(elapsed /\ ~busy /\ checkCount >= maxChecks)]
       /\ UNCHANGED <<contentPc, page, checksRun, modal>>
       /\ UNCHANGED progVars

\* checkCPU, the animation-frame callback, dt ms after the previous frame
checkCPU(dt) ==
    LET currentTime == cpu.now + dt
        iterations  == cpu.iterations + 1
        elapsed     == currentTime - cpu.startTime > WINDOW_MS
        busy        == elapsed /\ iterations < MIN_ITERATIONS
        checkCount  == IF elapsed THEN cpu.checkCount + 1 ELSE cpu.checkCount
    IN /\ cpu.frameRequested
       /\ reported' = IF busy THEN Append(reported, "high_cpu_usage") ELSE reported
       /\ cpu' = [now            |-> currentTime,
                  startTime      |-> IF elapsed /\ ~busy THEN currentTime ELSE cpu.startTime,
                  iterations     |-> IF elapsed /\ ~busy THEN 0 ELSE iterations,
                  checkCount     |-> checkCount,
                  frameRequested |-> ~(busy \/ (elapsed /\ checkCount >= maxChecks))]
       /\ UNCHANGED <<contentPc, page, checksRun, modal>>
       /\ UNCHANGED progVars

\* variant: the modal is appended whether or not a warning is already shown
showSecurityWarning_Stacking(m) ==
    [m EXCEPT !.warningShown = TRUE, !.modals = @ + 1]

\* showSecurityWarning of the content script
showSecurityWarning(m) ==
    IF m.warningShown THEN m
    ELSE [m EXCEPT !.warningShown = TRUE, !.modals = @ + 1]

\* the content script of tab t receives the security_warning sent to it
security_warning(t) ==
    /\ t \in warningsSent
    /\ warningsSent' = warningsSent \ {t}
    /\ modal' = showSecurityWarning(modal)
    /\ UNCHANGED <<contentPc, page, checksRun, reported, cpu>>
    /\ UNCHANGED <<settings, stats, savedStats, storage, pending, badge, decision, response,
                   unanswered>>

\* a click on "Continue Anyway" of an open modal
continueAnyway ==
    /\ modal.modals > 0
    /\ modal' = [warningShown |-> FALSE, modals |-> modal.modals - 1]
    /\ UNCHANGED <<contentPc, page, checksRun, reported, cpu>>
    /\ UNCHANGED progVars

(***************************************************************************)
(* SpecContent: one content script, from page load to the end of sampling; *)
(* the browser keeps delivering requested animation frames                 *)
(***************************************************************************)

StartMonitoring ==
    /\ \E pg \in Pages : startMonitoring(pg)
    /\ UNCHANGED evals

Frame ==
    /\ \E dt \in FrameIntervals : checkCPU(dt)
    /\ UNCHANGED evals

NextContent ==
    \/ StartMonitoring
    \/ Frame

SpecContent == Init /\ [][NextContent]_vars /\ WF_vars(Frame)

(***************************************************************************)
(* Spec: the service with every event source, on a few inputs             *)
(***************************************************************************)

NavUrls == { urlClean, urlPath, urlMaliciousPath, urlChrome, urlMalformed }

ServiceRequestUrls == { reqTagManager, reqPlain }

ServiceSettingsSent ==
    {defaultSettings} \cup
    {[defaultSettings EXCEPT ![n] = FALSE] :
        n \in {"realTimeProtection", "blockTrackers", "blockPhishing"}}

Navigate ==
    /\ Len(pending) < MaxPending
    /\ \E url \in NavUrls, tabId \in Tabs : onBeforeNavigate(url, tabId)
    /\ UNCHANGED <<evals, contentVars>>

ResumeScan ==
    /\ \E k \in 1..Len(pending) : analyzeURLResume(k)
    /\ UNCHANGED <<evals, contentVars>>

TabComplete ==
    /\ \E tabId \in Tabs : onUpdated(tabId)
    /\ UNCHANGED <<evals, contentVars>>

Request ==
    /\ \E url \in ServiceRequestUrls : analyzeRequest(url)
    /\ UNCHANGED <<evals, contentVars>>

GetAnalysis ==
    /\ \E senderTab \in Tabs \cup {NoTab} : get_analysis(senderTab)
    /\ UNCHANGED <<evals, contentVars>>

SettingsUpdated ==
    /\ \E sent \in ServiceSettingsSent : settings_updated(sent)
    /\ UNCHANGED <<evals, contentVars>>

UpdateTrackerCount ==
    /\ Len(pending) < MaxPending
    /\ \E senderTab \in Tabs, count \in TrackerCounts : update_tracker_count(senderTab, count)
    /\ UNCHANGED <<evals, contentVars>>

ResumeTrackerCount ==
    /\ \E k \in 1..Len(pending) : update_tracker_countResume(k)
    /\ UNCHANGED <<evals, contentVars>>

Next ==
    \/ Navigate
    \/ ResumeScan
    \/ TabComplete
    \/ Request
    \/ GetAnalysis
    \/ SettingsUpdated
    \/ UpdateTrackerCount
    \/ ResumeTrackerCount

Spec == Init /\ [][Next]_vars

(***************************************************************************)
(* SpecMessages: every listener and every message type of handleMessage,   *)
(* on fewer inputs; force_scan comes from the tab's content script (the     *)
(* popup's is in SpecAnswer)                                               *)
(***************************************************************************)

MessagesNavUrls == { urlMaliciousPath, urlMalformed }

MessagesRequestUrls == { reqTagManager, reqMalformed }

\* the tab URLs force_scan is sent from
ForceScanUrls == { urlPath, urlChrome }

MessagesSettingsSent ==
    {defaultSettings, [defaultSettings EXCEPT !.blockTrackers = FALSE]}

MessagesNavigate ==
    /\ Len(pending) < MaxPending
    /\ \E url \in MessagesNavUrls, tabId \in Tabs : onBeforeNavigate(url, tabId)
    /\ UNCHANGED <<evals, contentVars>>

MessagesRequest ==
    /\ \E url \in MessagesRequestUrls : analyzeRequest(url)
    /\ UNCHANGED <<evals, contentVars>>

MessagesSettingsUpdated ==
    /\ \E sent \in MessagesSettingsSent : settings_updated(sent)
    /\ UNCHANGED <<evals, contentVars>>

GetStats ==
    /\ get_stats
    /\ UNCHANGED <<evals, contentVars>>

ReportSuspicious ==
    /\ \E senderTab \in Tabs, indicators \in ReportedIndicators :
          report_suspicious(senderTab, indicators)
    /\ UNCHANGED <<evals, contentVars>>

UnknownMessage ==
    /\ unknown_message
    /\ UNCHANGED <<evals, contentVars>>

ForceScan ==
    /\ Len(pending) < MaxPending
    /\ \E senderTab \in Tabs, url \in ForceScanUrls : force_scan(senderTab, url)
    /\ UNCHANGED <<evals, contentVars>>

ResumeForceScan ==
    /\ \E k \in 1..Len(pending) : force_scanResume(k)
    /\ UNCHANGED <<evals, contentVars>>

NextMessages ==
    \/ MessagesNavigate
    \/ ResumeScan
    \/ TabComplete
    \/ MessagesRequest
    \/ GetAnalysis
    \/ MessagesSettingsUpdated
    \/ UpdateTrackerCount
    \/ ResumeTrackerCount
    \/ GetStats
    \/ ReportSuspicious
    \/ UnknownMessage
    \/ ForceScan
    \/ ResumeForceScan

SpecMessages == Init /\ [][NextMessages]_vars

(***************************************************************************)
(* SpecEngine: navigations to every input URL under the default settings   *)
(***************************************************************************)

EngineScan ==
    /\ Len(pending) < MaxPending
    /\ \E url \in AllUrls, tabId \in Tabs : onBeforeNavigate(url, tabId)
    /\ UNCHANGED <<evals, contentVars>>

NextEngine ==
    \/ EngineScan
    \/ ResumeScan

SpecEngine == Init /\ [][NextEngine]_vars

(***************************************************************************)
(* SpecGating: navigations while the detector toggles change; evals keeps  *)
(* two of the evaluations, in order, to compare them                       *)
(***************************************************************************)

GatingUrls ==
    { urlClean, urlMalicious, urlExampleTk, urlShortener, urlLong, urlDeep, urlPath,
      urlIPOther }

GatedScan ==
    /\ Len(pending) < MaxPending
    /\ \E url \in GatingUrls, tabId \in Tabs :
          /\ onBeforeNavigate(url, tabId)
          /\ \/ UNCHANGED evals
             \/ /\ Len(evals) <= 1
                /\ evals' = Append(evals, [url |-> url, settings |-> settings,
                                           analysis |-> storage'[tabId]])
    /\ UNCHANGED contentVars

DetectorSettingsUpdated ==
    /\ \E sent \in DetectorSettingsSent : settings_updated(sent)
    /\ UNCHANGED <<evals, contentVars>>

NextGating ==
    \/ GatedScan
    \/ ResumeScan
    \/ DetectorSettingsUpdated

SpecGating == Init /\ [][NextGating]_vars

(***************************************************************************)
(* SpecTracker: outbound requests while the settings change                *)
(***************************************************************************)

TrackerRequest ==
    /\ \E url \in RequestUrls : analyzeRequest(url)
    /\ UNCHANGED <<evals, contentVars>>

AnySettingsUpdated ==
    /\ \E sent \in SettingsSent : settings_updated(sent)
    /\ UNCHANGED <<evals, contentVars>>

NextTracker ==
    \/ TrackerRequest
    \/ AnySettingsUpdated

SpecTracker == Init /\ [][NextTracker]_vars

(***************************************************************************)
(* SpecStats: navigations to URLs with each kind of threat and requests to  *)
(* every input request URL, while the settings change                      *)
(***************************************************************************)

StatsUrls ==
    { urlClean, urlMalicious, urlMaliciousPath, urlExampleTk, urlPath, urlChrome,
      urlMalformed }

StatsSettingsSent ==
    {defaultSettings} \cup
    {[defaultSettings EXCEPT ![n] = FALSE] : n \in {"realTimeProtection", "blockTrackers"}}

StatsScan ==
    /\ Len(pending) < MaxPending
    /\ \E url \in StatsUrls, tabId \in Tabs : onBeforeNavigate(url, tabId)
    /\ UNCHANGED <<evals, contentVars>>

StatsSettingsUpdated ==
    /\ \E sent \in StatsSettingsSent : settings_updated(sent)
    /\ UNCHANGED <<evals, contentVars>>

NextStats ==
    \/ StatsScan
    \/ ResumeScan
    \/ TrackerRequest
    \/ StatsSettingsUpdated

SpecStats == Init /\ [][NextStats]_vars

(***************************************************************************)
(* SpecRace: navigations and update_tracker_count messages of one tab that *)
(* overlap; the storage operations complete in the order they were issued, *)
(* so the handler suspended first resumes first                            *)
(***************************************************************************)

RaceUrls == { urlPath, urlMaliciousPath }

RaceNavigate ==
    /\ Len(pending) <= MaxPending
    /\ \E url \in RaceUrls, tabId \in Tabs : onBeforeNavigate(url, tabId)
    /\ UNCHANGED <<evals, contentVars>>

RaceUpdateTrackerCount ==
    /\ Len(pending) <= MaxPending
    /\ \E senderTab \in Tabs, count \in TrackerCounts : update_tracker_count(senderTab, count)
    /\ UNCHANGED <<evals, contentVars>>

RaceResumeScan ==
    /\ analyzeURLResume(1)
    /\ UNCHANGED <<evals, contentVars>>

RaceResumeTrackerCount ==
    /\ update_tracker_countResume(1)
    /\ UNCHANGED <<evals, contentVars>>

NextRace ==
    \/ RaceNavigate
    \/ RaceResumeScan
    \/ RaceUpdateTrackerCount
    \/ RaceResumeTrackerCount

SpecRace == Init /\ [][NextRace]_vars

(***************************************************************************)
(* SpecSnapshot: navigations while any setting changes; evals keeps the    *)
(* latest evaluation with the settings in force when it started            *)
(***************************************************************************)

SnapshotUrls == { urlClean, urlExampleTk }

SnapshotScan ==
    /\ Len(pending) < MaxPending
    /\ \E url \in SnapshotUrls, tabId \in Tabs :
          /\ onBeforeNavigate(url, tabId)
          /\ evals' = << [url |-> url, settings |-> settings, analysis |-> storage'[tabId]] >>
    /\ UNCHANGED contentVars

NextSnapshot ==
    \/ SnapshotScan
    \/ ResumeScan
    \/ AnySettingsUpdated

SpecSnapshot == Init /\ [][NextSnapshot]_vars

(***************************************************************************)
(* SpecAnswer: every message type of handleMessage, from a tab's content   *)
(* script and from the popup, which has no sender tab                      *)
(***************************************************************************)

\* runQuickScan of the popup sends force_scan; the sender has no tab
PopupForceScan ==
    /\ \E url \in ForceScanUrls : force_scan(NoTab, url)
    /\ UNCHANGED <<evals, contentVars>>

NextAnswer ==
    \/ GetAnalysis
    \/ MessagesSettingsUpdated
    \/ GetStats
    \/ ReportSuspicious
    \/ UnknownMessage
    \/ ForceScan
    \/ PopupForceScan
    \/ ResumeForceScan
    \/ UpdateTrackerCount
    \/ ResumeTrackerCount

SpecAnswer == Init /\ [][NextAnswer]_vars

(***************************************************************************)
(* SpecForms: content scripts on pages with a password form                *)
(***************************************************************************)

StartMonitoringForms ==
    /\ \E pg \in FormPages : startMonitoring(pg)
    /\ UNCHANGED evals

NextForms ==
    \/ StartMonitoringForms
    \/ Frame

SpecForms == Init /\ [][NextForms]_vars

(***************************************************************************)
(* SpecWarning: evaluations that warn, the content script that receives    *)
(* the warnings, and the user who dismisses them; evals keeps, for each    *)
(* warning received, the number of modals open when it arrived             *)
(***************************************************************************)

WarningReceived ==
    /\ \E t \in Tabs : security_warning(t)
    /\ evals' = Append(evals, [open |-> modal.modals])

ContinueAnyway ==
    /\ continueAnyway
    /\ UNCHANGED evals

NextWarning ==
    \/ RaceNavigate
    \/ ResumeScan
    \/ AnySettingsUpdated
    \/ WarningReceived
    \/ ContinueAnyway

SpecWarning == Init /\ [][NextWarning]_vars

(***************************************************************************)
(* SpecReset: evaluations, requests and get_stats around a reset from the  *)
(* settings page; evals keeps the counters as they were at the last reset  *)
(***************************************************************************)

ClearData ==
    /\ clearData
    /\ evals' = << [statsAtReset |-> stats] >>
    /\ UNCHANGED contentVars

NextReset ==
    \/ StatsScan
    \/ ResumeScan
    \/ TrackerRequest
    \/ GetStats
    \/ ClearData

SpecReset == Init /\ [][NextReset]_vars

(***************************************************************************)
(* SpecStale: top-level navigations of a tab, evaluated or not; evals      *)
(* keeps the tab's most recent navigation                                  *)
(***************************************************************************)

\* webNavigation.onBeforeNavigate fires for every navigation; the listener
\* returns at once when realTimeProtection is off
StaleNavigate ==
    /\ Len(pending) < MaxPending
    /\ \E url \in NavUrls, tabId \in Tabs :
          /\ \/ onBeforeNavigate(url, tabId)
             \/ ~settings.realTimeProtection /\ UNCHANGED progVars
          /\ evals' = << [url |-> url, tabId |-> tabId] >>
    /\ UNCHANGED contentVars

NextStale ==
    \/ StaleNavigate
    \/ ResumeScan
    \/ SettingsUpdated

SpecStale == Init /\ [][NextStale]_vars

(***************************************************************************)
(* The popup: Hero.svelte loadSecurityAnalysis builds securityData from    *)
(* the get_analysis response                                               *)
(***************************************************************************)

securityDataOf(body) ==
    [isSecure        |-> body.riskScore < 30,
     riskScore       |-> body.riskScore,
     threats         |-> body.threats,
     trackersBlocked |-> body.trackersBlocked]

(***************************************************************************)
(* Properties                                                              *)
(***************************************************************************)

\* the analysis results held anywhere in the state
StoredResults == {storage[t] : t \in Tabs} \ {Null}

InFlightResults ==
    {pending[k].analysis : k \in {j \in 1..Len(pending) :
                                     \/ pending[j].op = "analyzeURL"
                                     \/ pending[j].op = "force_scan" /\ pending[j].stage = "scan"}}
      \cup ({pending[k].read : k \in {j \in 1..Len(pending) : pending[j].op = "update_tracker_count"}}
               \ {Null})

ReturnedResults ==
    IF response # Null /\ response.type \in {"get_analysis", "force_scan"} /\ response.body # Null
    THEN {response.body}
    ELSE {}

AllResults == StoredResults \cup InFlightResults \cup ReturnedResults

hostPaypa1         == <<"p","a","y","p","a","1","-","l","o","g","i","n",".","c","o","m">>
hostPaypal         == <<"p","a","y","p","a","l",".","c","o","m">>
hostAccountsPaypal == <<"a","c","c","o","u","n","t","s",".","p","a","y","p","a","l",".","c","o","m">>
IPHosts            == { <<"1","9","2",".","1","6","8",".","1",".","1","0">>, <<"1","0",".","0",".","0",".","1">> }

\* C1: the riskScore of every stored AnalysisResult is in [0,100]
C1_RiskScoreInRange ==
    \A a \in StoredResults : a.riskScore >= 0 /\ a.riskScore <= 100

\* C2: every AnalysisResult stored, in flight or returned, and the securityData the
\* popup builds from a returned one, has isSecure = (riskScore < 30)
C2_ThresholdLaw ==
    /\ \A a \in AllResults : a.isSecure <=> (a.riskScore < 30)
    /\ \A a \in ReturnedResults :
          securityDataOf(a).isSecure <=> (securityDataOf(a).riskScore < 30)

\* C2 witness: a result at the threshold (riskScore 30, not secure) that
\* update_tracker_count has rewritten and get_analysis has returned
C2_Witness ==
    \E a \in StoredResults \cap ReturnedResults :
        a.riskScore = 30 /\ a.trackersBlocked = 2 /\ ~a.isSecure

\* C3: an evaluation started with a detector category switched off holds no threat
\* of that category, and that category adds nothing to its riskScore
C3_DisabledCategorySilent ==
    \A k \in 1..Len(evals) :
        /\ ~evals[k].settings.blockPhishing =>
              /\ CountOf(evals[k].analysis.threats, "phishing") = 0
              /\ evals[k].url = urlExampleTk => evals[k].analysis.riskScore = 0
        /\ ~evals[k].settings.blockMaliciousSites =>
              /\ CountOf(evals[k].analysis.threats, "malicious_domain") = 0
              /\ evals[k].url = urlMalicious => evals[k].analysis.riskScore = 0

\* C4: the host paypa1-login.com gets a phishing threat
C4_Paypa1Flagged ==
    \A a \in StoredResults : a.domain = hostPaypa1 => CountOf(a.threats, "phishing") >= 1

\* C5: the hosts paypal.com and accounts.paypal.com get no phishing threat
C5_PaypalNotFlagged ==
    \A a \in StoredResults :
        a.domain \in {hostPaypal, hostAccountsPaypal} => CountOf(a.threats, "phishing") = 0

\* C5 witness: accounts.paypal.com has been evaluated and its result stored
C5_Witness ==
    \E a \in StoredResults : a.domain = hostAccountsPaypal /\ stats.sitesScanned >= 1

\* C6: a URL with an IPv4-literal host gets exactly one suspicious_url threat and the
\* structure check contributes 40 to riskScore, whatever its length and path
C6_IPLiteralShortCircuit ==
    \A a \in StoredResults :
        a.domain \in IPHosts =>
            /\ CountOf(a.threats, "suspicious_url") = 1
            /\ a.riskScore - 80 * CountOf(a.threats, "malicious_domain")
                           - 70 * CountOf(a.threats, "phishing") = 40

\* C6 witness: the IP-literal URL that is also over 100 characters long and has a
\* suspicious path has been evaluated
C6_Witness ==
    \E a \in StoredResults : a.url = urlIPLong /\ Len(a.url) > 100

\* C7: a request is cancelled iff blockTrackers is on and its host is a tracker (in the
\* set or matching a pattern); a request that is allowed changes no Stats counter
C7_TrackerGating ==
    /\ [](decision # Null =>
            /\ decision.cancel <=>
                  /\ decision.blockTrackers
                  /\ \/ requestDomainOf[decision.url] \in trackerDomains
                     \/ isKnownTracker(requestDomainOf[decision.url])
            /\ decision.url = reqTagManager => (decision.cancel <=> decision.blockTrackers))
    /\ [][(decision' # decision /\ ~decision'.cancel) => stats' = stats]_vars

\* C7 witness: googletagmanager.com was allowed, with blockTrackers off, after an
\* earlier request had been blocked
C7_Witness ==
    /\ decision # Null
    /\ decision.url = reqTagManager
    /\ ~decision.blockTrackers
    /\ ~decision.cancel
    /\ stats.trackersBlocked = 1

\* C8: with the default settings, https://secure-login-verify.tk/confirm?x=1 gets exactly
\* one threat, the suspicious-TLD phishing threat; riskScore is 70 and isSecure false
C8_SuspiciousTldScenario ==
    \A a \in StoredResults :
        a.url = urlTk =>
            /\ a.threats = << Threat("phishing", "high",
                  <<"Uses suspicious top-level domain often associated with phishing", <<>> >>) >>
            /\ a.riskScore = 70
            /\ ~a.isSecure

\* C8 witness: that URL has been evaluated under the default settings
C8_Witness ==
    \E a \in StoredResults : a.url = urlTk /\ settings = defaultSettings /\ Len(a.url) < 100

\* C9: any two results for the same URL, whatever was processed between the two
\* evaluations and whatever the settings, have the same threats, riskScore and isSecure
C9_Idempotent ==
    \A a, b \in AllResults :
        a.url = b.url =>
            /\ a.threats = b.threats
            /\ a.riskScore = b.riskScore
            /\ a.isSecure = b.isSecure

\* C9 witness: the result of a first evaluation (rewritten by update_tracker_count and
\* then returned by get_analysis) next to the stored result of a second evaluation of
\* the same URL, with a request blocked and both scans counted
C9_Witness ==
    \E a \in ReturnedResults, b \in StoredResults :
        /\ a.url = b.url
        /\ a.trackersBlocked = 2
        /\ b.trackersBlocked = 0
        /\ a.riskScore > 0
        /\ stats.sitesScanned = 2
        /\ stats.trackersBlocked = 1

\* the threat-triggering conditions of C10 that hold of a URL
Conditions(url) ==
    LET urlObj == ParseURL(url) IN
    {c \in {"blocklisted", "tld", "shortener", "long", "deep", "path", "ip", "brand"} :
        \/ c = "blocklisted" /\ urlObj.hostname \in maliciousDomains
        \/ c = "tld"         /\ tldFires(urlObj.hostname)
        \/ c = "shortener"   /\ shortenerFires(urlObj.hostname)
        \/ c = "long"        /\ Len(urlObj.href) > 100
        \/ c = "deep"        /\ SplitLength(urlObj.hostname, ".") > 4
        \/ c = "path"        /\ suspiciousPath(urlObj.pathname)
        \/ c = "ip"          /\ IsIPLiteral(urlObj.hostname)
        \/ c = "brand"       /\ brandCheck(urlObj.hostname).isPhishing}

ConditionsOf == [u \in GatingUrls |-> Conditions(u)]

\* s2 is s1 with detector categories switched off and nothing else changed
SwitchedOff(s1, s2) ==
    /\ \A n \in SettingNames \ DetectorNames : s2[n] = s1[n]
    /\ \A n \in DetectorNames : s2[n] => s1[n]

\* C10: of two evaluations, (a) a URL with one threat-triggering condition scores no less
\* than the clean URL, and (b) the same URL scores no more after detector categories
\* were switched off
C10_Monotone ==
    \A i, j \in 1..Len(evals) :
        /\ (ConditionsOf[evals[i].url] = {} /\ Cardinality(ConditionsOf[evals[j].url]) = 1)
              => evals[j].analysis.riskScore >= evals[i].analysis.riskScore
        /\ (i < j /\ evals[i].url = evals[j].url /\ SwitchedOff(evals[i].settings, evals[j].settings))
              => evals[j].analysis.riskScore <= evals[i].analysis.riskScore

\* C10 witness: the suspicious-TLD URL evaluated under the defaults and then again with
\* blockPhishing switched off
C10_Witness ==
    /\ Len(evals) = 2
    /\ evals[1].url = urlExampleTk
    /\ evals[2].url = urlExampleTk
    /\ evals[1].settings = defaultSettings
    /\ evals[2].settings = [defaultSettings EXCEPT !.blockPhishing = FALSE]

\* the checks of startMonitoring that did not throw on the page
HealthyChecks(pg) == SelectSeq(Checks, LAMBDA c : c # pg.throws)

\* C17: a throw inside one check does not stop the others: every other check of
\* startMonitoring still runs and its findings are still reported
C17_FailureIsolated ==
    contentPc # "loading" =>
        /\ \A k \in 1..Len(Checks) :
              Checks[k] # page.throws => \E j \in 1..Len(checksRun) : checksRun[j] = Checks[k]
        /\ SelectSeq(reported, LAMBDA r : r # "high_cpu_usage")
              = reportsOfAll(HealthyChecks(page), page)

HighCpuReports == Len(SelectSeq(reported, LAMBDA r : r = "high_cpu_usage"))

\* C18: the CPU sampling loop evaluates at most maxChecks windows, reports
\* high_cpu_usage at most once, at the first window with fewer than
\* MIN_ITERATIONS iterations, requests no frame after that report or after the
\* last window, and, while frames keep firing, always stops
C18_SamplingStops ==
    /\ [](cpu.checkCount <= maxChecks /\ HighCpuReports <= 1)
    /\ []((HighCpuReports = 1 \/ cpu.checkCount = maxChecks) => ~cpu.frameRequested)
    /\ [][HighCpuReports' > HighCpuReports =>
             /\ cpu'.checkCount = cpu.checkCount + 1
             /\ cpu'.iterations < MIN_ITERATIONS
             /\ cpu'.now - cpu'.startTime > WINDOW_MS]_vars
    /\ [][cpu'.checkCount > cpu.checkCount /\ cpu.iterations + 1 < MIN_ITERATIONS =>
             HighCpuReports' = 1]_vars
    /\ [][contentPc # "loading" /\ ~cpu.frameRequested => ~cpu'.frameRequested]_vars
    /\ (contentPc = "monitoring" ~> ~cpu.frameRequested)

\* the loop has stopped silently after maxChecks windows
C18_Witness ==
    /\ contentPc = "monitoring"
    /\ cpu.checkCount = maxChecks
    /\ ~cpu.frameRequested
    /\ HighCpuReports = 0

\* a step in which analyzeURL completes its synchronous part for a navigation
EvalStarted ==
    /\ Len(pending') = Len(pending) + 1
    /\ pending'[Len(pending')].op = "analyzeURL"

HasThreat(a, type) == \E k \in 1..Len(a.threats) : a.threats[k].type = type

\* C11: each evaluation increases stats.threatsBlocked by the number of threats in
\* its result, suspicious_url threats included
C11_ThreatsBlockedPerThreat ==
    [][EvalStarted =>
          stats'.threatsBlocked
             = stats.threatsBlocked + Len(pending'[Len(pending')].analysis.threats)]_vars

\* C12: each evaluation adds 1 to sitesScanned, 1 to malwareDetected iff its result
\* holds a malicious_domain threat, 1 to phishingBlocked iff it holds a phishing
\* threat, and leaves trackersBlocked; each blocked request adds 1 to
\* trackersBlocked and leaves the other four counters
C12_CounterFrame ==
    [][/\ EvalStarted =>
            LET a == pending'[Len(pending')].analysis IN
            /\ stats'.sitesScanned = stats.sitesScanned + 1
            /\ stats'.malwareDetected
                 = stats.malwareDetected + (IF HasThreat(a, "malicious_domain") THEN 1 ELSE 0)
            /\ stats'.phishingBlocked
                 = stats.phishingBlocked + (IF HasThreat(a, "phishing") THEN 1 ELSE 0)
            /\ stats'.trackersBlocked = stats.trackersBlocked
       /\ (\E url \in RequestUrls : analyzeRequest(url) /\ decision'.cancel) =>
            /\ stats'.trackersBlocked = stats.trackersBlocked + 1
            /\ stats'.sitesScanned = stats.sitesScanned
            /\ stats'.threatsBlocked = stats.threatsBlocked
            /\ stats'.malwareDetected = stats.malwareDetected
            /\ stats'.phishingBlocked = stats.phishingBlocked]_vars

\* C12 witness: a blocklisted host and a suspicious-TLD host were evaluated and a
\* request was blocked
C12_Witness ==
    /\ stats.sitesScanned = 2
    /\ stats.malwareDetected = 1
    /\ stats.phishingBlocked = 1
    /\ stats.trackersBlocked = 1
    /\ decision # Null
    /\ decision.cancel

\* C13: no step of the background service decreases any of the five counters
C13_CountersNeverDecrease ==
    [][\A c \in DOMAIN initialStats : stats'[c] >= stats[c]]_vars

\* C13 witness: counters raised by a navigation, a force_scan and a blocked
\* request, then returned by get_stats
C13_Witness ==
    /\ stats.sitesScanned = 2
    /\ stats.threatsBlocked = 1
    /\ stats.trackersBlocked = 1
    /\ response # Null
    /\ response.type = "get_stats"
    /\ response.body = stats

\* the evaluation whose result is stored for tab t is still suspended at its await
StoreInFlight(t) ==
    \E j \in 1..Len(pending) :
        pending[j].op = "analyzeURL" /\ pending[j].tabId = t /\ pending[j].analysis = storage[t]

\* C14: the result stored for a tab is replaced by data of another navigation only
\* when a new navigation is evaluated, and once the store of the newer result has
\* completed the badge is not set from an older result
C14_NoStaleOverwrite ==
    [][\A t \in Tabs :
          /\ (storage[t] # Null /\ storage'[t] # Null /\ storage'[t].url # storage[t].url)
                => (EvalStarted /\ pending'[Len(pending')].analysis = storage'[t])
          /\ \A k \in 1..Len(pending) :
                (analyzeURLResume(k) /\ pending[k].tabId = t /\ ~StoreInFlight(t))
                   => pending[k].analysis.url = storage[t].url]_vars

\* the threat types of a stored result, in order
ThreatTypes(a) == [k \in 1..Len(a.threats) |-> a.threats[k].type]

\* C15: the indicators of a report_suspicious message are appended, in order, to
\* the threats of the sender tab's stored result, and riskScore is not lowered
C15_ContentThreatsAppended ==
    [][\A t \in Tabs, d \in ReportedIndicators :
          (report_suspicious(t, d) /\ storage[t] # Null) =>
              /\ storage'[t] # Null
              /\ ThreatTypes(storage'[t]) = ThreatTypes(storage[t]) \o d
              /\ storage'[t].riskScore >= storage[t].riskScore]_vars

\* C16: no exception leaves analyzeURL or analyzeRequest on a malformed URL, no
\* result is stored for it and no request is blocked for it
C16_MalformedSkipped ==
    /\ decision # Null => ~decision.threw
    /\ decision # Null /\ ~requestParses[decision.url] => ~decision.cancel
    /\ \A a \in StoredResults : a.url \in AllUrls => scanOf[a.url].outcome = "analysed"

\* C19: classifying a request starts no storage operation and leaves everything
\* but the counters
C19_RequestTouchesOnlyCounters ==
    [][\A url \in RequestUrls :
          analyzeRequest(url) =>
              /\ savedStats' = savedStats
              /\ storage' = storage
              /\ pending' = pending
              /\ settings' = settings]_vars

\* C20: the showWarnings decision of an evaluation is the one of the settings in
\* force when the evaluation started
C20_SettingsSnapshot ==
    [][\A k \in 1..Len(pending) :
          (/\ analyzeURLResume(k)
           /\ Len(pending) = 1
           /\ Len(evals) = 1
           /\ evals[1].analysis = pending[k].analysis
           /\ pending[k].analysis.riskScore >= 60
           /\ pending[k].tabId \notin warningsSent)
             => (pending[k].tabId \in warningsSent' <=> evals[1].settings.showWarnings)]_vars

\* the structural rules each input URL without an IP-literal host satisfies:
\* over 100 characters, more than 4 labels, suspicious path
StructureCases ==
    { <<urlClean,        FALSE, FALSE, FALSE>>,
      <<urlLong,         TRUE,  FALSE, FALSE>>,
      <<urlDeep,         FALSE, TRUE,  FALSE>>,
      <<urlPath,         FALSE, FALSE, TRUE>>,
      <<urlLongDeep,     TRUE,  TRUE,  FALSE>>,
      <<urlLongPath,     TRUE,  FALSE, TRUE>>,
      <<urlDeepPath,     FALSE, TRUE,  TRUE>>,
      <<urlAllStructure, TRUE,  TRUE,  TRUE>>,
      <<urlMaliciousPath, FALSE, FALSE, TRUE>> }

ExpectedStructureScore(c) ==
    (IF c[2] THEN 20 ELSE 0) + (IF c[3] THEN 25 ELSE 0) + (IF c[4] THEN 30 ELSE 0)

\* what the structure check contributed to a result's riskScore
StructureScore(a) ==
    a.riskScore - 80 * CountOf(a.threats, "malicious_domain")
                - 70 * CountOf(a.threats, "phishing")

\* C21: without an IP-literal host the structure score is 20 (length over 100) + 25
\* (more than 4 labels) + 30 (suspicious path), and there is one suspicious_url
\* threat iff that score is above 0, none otherwise
C21_StructureScore ==
    \A a \in StoredResults : \A c \in StructureCases :
        a.url = c[1] =>
            /\ StructureScore(a) = ExpectedStructureScore(c)
            /\ CountOf(a.threats, "suspicious_url")
                 = (IF ExpectedStructureScore(c) > 0 THEN 1 ELSE 0)

\* C21 witness: the URL that is both over 100 characters and has more than 4 labels
\* has been evaluated, next to one that matches no rule
C21_Witness ==
    /\ \E a \in StoredResults : a.url = urlLongDeep /\ a.riskScore = 45
    /\ \E k \in 1..Len(pending) :
          pending[k].op = "analyzeURL" /\ pending[k].analysis.url = urlLongDeep
    /\ stats.sitesScanned = 2

ReasonOfRule(c) ==
    IF c[2] THEN <<"Unusually long URL", <<>> >>
    ELSE IF c[3] THEN <<"Too many subdomains", <<>> >>
    ELSE <<"Suspicious path pattern detected", <<>> >>

\* C22: the description of the suspicious_url threat is the reason of the first
\* structural rule that matched, in the order length, labels, path
C22_FirstMatchingReason ==
    \A a \in StoredResults : \A c \in StructureCases :
        (a.url = c[1] /\ ExpectedStructureScore(c) > 0) =>
            \E k \in 1..Len(a.threats) :
                /\ a.threats[k].type = "suspicious_url"
                /\ a.threats[k].description = ReasonOfRule(c)

hostPaypalSupport == <<"p","a","y","p","a","l","-","s","u","p","p","o","r","t",".","n","e","t">>
hostPineapple     == <<"p","i","n","e","a","p","p","l","e",".","o","r","g">>

\* C23: a host that contains a brand token unmodified, without "{token}.com" and
\* without a substituted form of it, is not flagged by the brand check
C23_UnmodifiedTokenNotFlagged ==
    \A a \in StoredResults :
        a.domain \in {hostPaypalSupport, hostPineapple} => CountOf(a.threats, "phishing") = 0

BrandHosts ==
    { <<"p","a","y","p","a","l",".","c","o","m">>, <<"m","i","c","r","o","s","o","f","t",".","c","o","m">>, <<"g","o","o","g","l","e",".","c","o","m">>, <<"f","a","c","e","b","o","o","k",".","c","o","m">>, <<"a","m","a","z","o","n",".","c","o","m">>,
      <<"a","p","p","l","e",".","c","o","m">> }

\* C30: the canonical host "{brand}.com" of each watched brand gets no phishing threat
C30_BrandHostsNotFlagged ==
    \A a \in StoredResults : a.domain \in BrandHosts => CountOf(a.threats, "phishing") = 0

\* the host a form action resolves to on the page
ActionHost(action) ==
    IF action = << >> \/ StartsWith(action, <<"/">>) THEN pageHost
    ELSE ParseURL(action).hostname

\* C24: once the page checks have run, external_login_form is reported for the
\* page's password form if and only if the host its action resolves to differs
\* from the page's host
C24_ExternalLoginForm ==
    (contentPc = "monitoring" /\ page.formAction # Null) =>
        ((\E k \in 1..Len(reported) : reported[k] = "external_login_form")
            <=> ActionHost(page.formAction) # pageHost)

\* C25: no handler of handleMessage returns without calling sendResponse,
\* whatever the message type and whether or not the sender has a tab
C25_EveryMessageAnswered == unanswered = {}

\* C26: once no evaluation is in flight, the result readable for a tab is the
\* result for the URL of the tab's most recent navigation, or no result
C26_StoredIsCurrentPage ==
    \A t \in Tabs :
        (pending = << >> /\ evals # << >> /\ evals[1].tabId = t) =>
            getStoredAnalysis(t).url \in {evals[1].url, << "Unknown" >>}

\* C27: a tab-updated event with status 'complete' leaves the badge of a tab
\* whose evaluation found threats as it is
C27_BadgeKeptOnComplete ==
    [][\A t \in Tabs : (onUpdated(t) /\ badge[t] > 0) => badge'[t] = badge[t]]_vars

\* C28: an evaluation sends a security_warning to its tab if and only if its
\* riskScore is at least 60 and showWarnings is on; the content script never
\* has more than one modal open, and a warning received while one is open adds
\* none
C28_WarningLaw ==
    /\ [](modal.modals <= 1)
    /\ [][\A k \in 1..Len(pending) :
            (analyzeURLResume(k) /\ pending[k].tabId \notin warningsSent) =>
                (pending[k].tabId \in warningsSent'
                    <=> (pending[k].analysis.riskScore >= 60 /\ settings.showWarnings))]_vars
    /\ [][\A t \in Tabs :
            (security_warning(t) /\ modal.modals = 1) => modal'.modals = 1]_vars

\* a second warning arrived while the modal of the first was open, and one
\* modal is open
C28_Witness ==
    /\ Len(evals) = 2
    /\ evals[2].open = 1
    /\ modal = [warningShown |-> TRUE, modals |-> 1]

\* what a counter has counted since the last reset
CountedSinceReset(c) == stats[c] - evals[1].statsAtReset[c]

\* C29: after a reset, the statistics the background service persists and
\* returns through get_stats count only what happened after the reset
C29_ResetTakesEffect ==
    /\ []((evals # << >> /\ savedStats # Null) =>
            \A c \in DOMAIN stats : savedStats[c] <= CountedSinceReset(c))
    /\ [][(evals # << >> /\ get_stats) =>
            \A c \in DOMAIN stats : response'.body[c] = CountedSinceReset(c)]_vars

====
